---------------------------- MODULE Spec2Model ----------------------------
(***************************************************************************)
(* Model of the chat-to-completion request adapter                         *)
(* src/ai-tutor/socratic_c_tutor.py (Flask proxy in front of a remote      *)
(* text-completion endpoint).                                              *)
(*                                                                         *)
(* Texts that the code inspects character by character (completion text,   *)
(* Authorization header, model name) are sequences of one-character        *)
(* strings.  Python's 0-based indices and half-open slices are kept.       *)
(***************************************************************************)
EXTENDS Integers, Sequences, FiniteSets, TLC

VARIABLES
    text,       \* SpecParse: the argument handed to parse_thinking_content
    parsed,     \* SpecParse: <<>> before the call, <<result>> after it
    call,       \* SpecFlatten, SpecTrim, SpecKey: the arguments of the call
    result,     \* SpecFlatten, SpecTrim, SpecKey: <<>> or <<what it returned>>
    request,    \* <<>> or <<[route, auth, json_data]>>: the inbound request
    sent,       \* the configs handed to requests.post, in call order
    upstream,   \* <<>> or <<outcome>>: what the remote endpoint answered
    response,   \* <<>> or <<[status, body]>>: what operation() returned
    gen,        \* the streamGeneration generator of the request
    buffered,   \* lines of the upstream body requests.post has read so far
    received,   \* upstream lines consumed so far by the generator
    events,     \* frames of the generator that reached the caller
    consumer,   \* "reading", or "closed" once the caller has gone
    streams,    \* SpecConcurrent: the generator of each of two requests
    settings    \* the module-level configuration of the process

pureVars == <<text, parsed, call, result>>
requestVars == <<request, sent, upstream, response, gen, buffered, received, events, consumer>>

vars == <<pureVars, requestVars, streams, settings>>

---------------------------------------------------------------------------
(* Bounds of the model *)

MaxPieces == 4
MaxLines == 3
MaxMessages == 2

---------------------------------------------------------------------------
(* Python string primitives over sequences of characters *)

Min(S) == CHOOSE x \in S : \A y \in S : x <= y
Max(S) == CHOOSE x \in S : \A y \in S : x >= y

\* s[a:b]
Slice(s, a, b) == SubSeq(s, a + 1, b)

\* s[a:]
SliceFrom(s, a) == SubSeq(s, a + 1, Len(s))

\* s[i:i+len(p)] == p
OccursAt(s, p, i) == i >= 0 /\ i + Len(p) <= Len(s) /\ SubSeq(s, i + 1, i + Len(p)) = p

\* s.startswith(p)
startswith(s, p) == OccursAt(s, p, 0)

\* p in s
contains(s, p) == \E i \in 0..Len(s) : OccursAt(s, p, i)

\* s.find(p)
find(s, p) == IF contains(s, p) THEN Min({i \in 0..Len(s) : OccursAt(s, p, i)}) ELSE -1

\* the characters str.strip() / str.rstrip() remove
Whitespace == {" ", "\n", "\t", "\r"}

rstrip(s) ==
    LET keep == {i \in 1..Len(s) : s[i] \notin Whitespace}
    IN IF keep = {} THEN <<>> ELSE SubSeq(s, 1, Max(keep))

lstrip(s) ==
    LET keep == {i \in 1..Len(s) : s[i] \notin Whitespace}
    IN IF keep = {} THEN <<>> ELSE SubSeq(s, Min(keep), Len(s))

strip(s) == lstrip(rstrip(s))

lower_char(c) ==
    CASE c = "B" -> "b"
      [] c = "E" -> "e"
      [] c = "A" -> "a"
      [] c = "R" -> "r"
      [] c = "Q" -> "q"
      [] c = "W" -> "w"
      [] c = "N" -> "n"
      [] c = "O" -> "o"
      [] c = "K" -> "k"
      [] OTHER -> c

\* s.lower()
lower(s) == [i \in 1..Len(s) |-> lower_char(s[i])]

---------------------------------------------------------------------------
(* parse_thinking_content *)

THINK_OPEN == <<"<", "t", "h", "i", "n", "k", ">">>
COLON_THINK_OPEN == <<":">> \o THINK_OPEN
THINK_CLOSE == <<"<", "/", "t", "h", "i", "n", "k", ">">>

NoMatch == [found |-> FALSE, group1 |-> <<>>, end |-> 0]

\* re.search(r'<think>(.*?)</think>', text, re.DOTALL): the leftmost '<think>'
\* that some '</think>' follows, lazily extended to the first such '</think>'.
re_search_think(s) ==
    LET closesAfter(i) == {j \in (i + Len(THINK_OPEN))..Len(s) : OccursAt(s, THINK_CLOSE, j)}
        starts == {i \in 0..Len(s) : OccursAt(s, THINK_OPEN, i) /\ closesAfter(i) # {}}
    IN IF starts = {} THEN NoMatch
       ELSE LET i == Min(starts)
                j == Min(closesAfter(i))
            IN [found |-> TRUE,
                group1 |-> Slice(s, i + Len(THINK_OPEN), j),
                end |-> j + Len(THINK_CLOSE)]

\* group(2) of r'<think>(.*?)</think>(.*?)$' with re.DOTALL: '$' matches at
\* the end of the text and just before a newline that ends the text; the
\* lazy group stops at the first of the two.
re_group2(s, m) ==
    LET rest == SliceFrom(s, m.end)
    IN IF rest # <<>> /\ rest[Len(rest)] = "\n" THEN SubSeq(rest, 1, Len(rest) - 1) ELSE rest

\* parse_thinking_content without .strip() on the closed leading block
parse_thinking_content_untrimmed(s) ==
    IF s = <<>> THEN [thinking_content |-> <<>>, final_answer |-> <<>>]
    ELSE LET m == re_search_think(s)
         IN IF startswith(s, COLON_THINK_OPEN) \/ startswith(s, THINK_OPEN)
            THEN IF m.found
                 THEN [thinking_content |-> m.group1,
                       final_answer |-> SliceFrom(s, m.end)]
                 ELSE IF contains(s, COLON_THINK_OPEN)
                      THEN [thinking_content |-> SliceFrom(s, find(s, COLON_THINK_OPEN) + 8),
                            final_answer |-> <<>>]
                      ELSE [thinking_content |-> SliceFrom(s, find(s, THINK_OPEN) + 7),
                            final_answer |-> <<>>]
            ELSE IF m.found
                 THEN [thinking_content |-> strip(m.group1),
                       final_answer |-> strip(re_group2(s, m))]
                 ELSE [thinking_content |-> <<>>, final_answer |-> s]

\* parse_thinking_content returning text.strip() in the plain-answer case
parse_thinking_content_plain_stripped(s) ==
    IF s = <<>> THEN [thinking_content |-> <<>>, final_answer |-> <<>>]
    ELSE LET m == re_search_think(s)
         IN IF startswith(s, COLON_THINK_OPEN) \/ startswith(s, THINK_OPEN)
            THEN IF m.found
                 THEN [thinking_content |-> strip(m.group1),
                       final_answer |-> strip(SliceFrom(s, m.end))]
                 ELSE IF contains(s, COLON_THINK_OPEN)
                      THEN [thinking_content |-> SliceFrom(s, find(s, COLON_THINK_OPEN) + 8),
                            final_answer |-> <<>>]
                      ELSE [thinking_content |-> SliceFrom(s, find(s, THINK_OPEN) + 7),
                            final_answer |-> <<>>]
            ELSE IF m.found
                 THEN [thinking_content |-> strip(m.group1),
                       final_answer |-> strip(re_group2(s, m))]
                 ELSE [thinking_content |-> <<>>, final_answer |-> strip(s)]

\* parse_thinking_content that leaves the text before an embedded block in
\* the final answer
parse_thinking_content_keeps_prefix(s) ==
    IF s = <<>> THEN [thinking_content |-> <<>>, final_answer |-> <<>>]
    ELSE LET m == re_search_think(s)
         IN IF startswith(s, COLON_THINK_OPEN) \/ startswith(s, THINK_OPEN)
            THEN IF m.found
                 THEN [thinking_content |-> strip(m.group1),
                       final_answer |-> strip(SliceFrom(s, m.end))]
                 ELSE IF contains(s, COLON_THINK_OPEN)
                      THEN [thinking_content |-> SliceFrom(s, find(s, COLON_THINK_OPEN) + 8),
                            final_answer |-> <<>>]
                      ELSE [thinking_content |-> SliceFrom(s, find(s, THINK_OPEN) + 7),
                            final_answer |-> <<>>]
            ELSE IF m.found
                 THEN [thinking_content |-> strip(m.group1),
                       final_answer |-> strip(Slice(s, 0, find(s, THINK_OPEN))
                                                  \o re_group2(s, m))]
                 ELSE [thinking_content |-> <<>>, final_answer |-> s]

parse_thinking_content(s) ==
    IF s = <<>> THEN [thinking_content |-> <<>>, final_answer |-> <<>>]
    ELSE LET m == re_search_think(s)
         IN IF startswith(s, COLON_THINK_OPEN) \/ startswith(s, THINK_OPEN)
            THEN IF m.found
                 THEN [thinking_content |-> strip(m.group1),
                       final_answer |-> strip(SliceFrom(s, m.end))]
                 ELSE IF contains(s, COLON_THINK_OPEN)
                      THEN [thinking_content |-> SliceFrom(s, find(s, COLON_THINK_OPEN) + 8),
                            final_answer |-> <<>>]
                      ELSE [thinking_content |-> SliceFrom(s, find(s, THINK_OPEN) + 7),
                            final_answer |-> <<>>]
            ELSE IF m.found
                 THEN [thinking_content |-> strip(m.group1),
                       final_answer |-> strip(re_group2(s, m))]
                 ELSE [thinking_content |-> <<>>, final_answer |-> s]

---------------------------------------------------------------------------
(* The texts parse_thinking_content is exercised on: concatenations of at  *)
(* most MaxPieces pieces.                                                  *)

Pieces == {THINK_OPEN, THINK_CLOSE, <<":">>, <<" ">>, <<"a">>, <<"<">>}

RECURSIVE TextsUpTo(_)
TextsUpTo(n) ==
    IF n = 0 THEN {<<>>}
    ELSE LET prev == TextsUpTo(n - 1)
         IN prev \cup {t \o p : t \in prev, p \in Pieces}

ParseTexts == TextsUpTo(MaxPieces)

---------------------------------------------------------------------------
(* trim_to_end_sentence, autoTrim *)

\* line 378.  The double quote, the backtick and the characters outside ASCII are written
\* as their code points ("U+3002" is one character).  The typographic quotation marks of the set
\* are not legible in the source at hand; the legible marks are kept.
punctuation ==
    {".", "!", "?", "*", "U+0022", ")", "}", "U+0060", "]", "$",
     "U+3002", "U+FF01", "U+FF1F", "U+FF09", "U+3011", "U+300D"}

auto_trim == TRUE

\* a trim without the 'last == -1' fallback of lines 393-394
trim_to_end_sentence_no_fallback(input_str, include_newline) ==
    IF input_str = <<>> THEN <<>>
    ELSE LET stops == {i \in 0..(Len(input_str) - 1) :
                          \/ input_str[i + 1] \in punctuation
                          \/ include_newline /\ input_str[i + 1] = "\n"}
             last == IF stops = {} THEN -1
                     ELSE IF input_str[Max(stops) + 1] \in punctuation
                              /\ Max(stops) > 0 /\ input_str[Max(stops)] \in {" ", "\n"}
                     THEN Max(stops) - 1 ELSE Max(stops)
         IN rstrip(Slice(input_str, 0, last + 1))

trim_to_end_sentence(input_str, include_newline) ==
    IF input_str = <<>> THEN <<>>
    ELSE LET stops == {i \in 0..(Len(input_str) - 1) :
                          \/ input_str[i + 1] \in punctuation
                          \/ include_newline /\ input_str[i + 1] = "\n"}
         IN IF stops = {} THEN rstrip(input_str)
            ELSE LET i == Max(stops)
                     last == IF input_str[i + 1] \in punctuation
                                  /\ i > 0 /\ input_str[i] \in {" ", "\n"}
                             THEN i - 1 ELSE i
                 IN rstrip(Slice(input_str, 0, last + 1))

\* an autoTrim that trims the whole text whatever is_thinking says
autoTrim_whole_text(s, is_thinking) ==
    IF s = <<>> THEN s
    ELSE IF settings.auto_trim THEN trim_to_end_sentence(s, FALSE) ELSE s

\* lines 398-412; auto_trim is read from the module-level settings at the call
autoTrim(s, is_thinking) ==
    IF s = <<>> THEN s
    ELSE IF is_thinking
         THEN LET p == parse_thinking_content(s)
              IN IF p.final_answer # <<>>
                 THEN (IF settings.auto_trim THEN trim_to_end_sentence(p.final_answer, FALSE)
                       ELSE p.final_answer)
                 ELSE s
         ELSE IF settings.auto_trim THEN trim_to_end_sentence(s, FALSE) ELSE s

---------------------------------------------------------------------------
(* is_thinking_model, clean_api_key *)

thinking_keywords ==
    { <<"t", "h", "i", "n", "k", "i", "n", "g">>,
      <<"q", "w", "e", "n", "3">>,
      <<"q", "w", "q">>,
      <<"d", "e", "e", "p", "s", "e", "e", "k", "-", "r", "1">>,
      <<"o", "1">>,
      <<"r", "e", "a", "s", "o", "n", "i", "n", "g">> }

is_thinking_model(model_name) ==
    \E keyword \in thinking_keywords : contains(lower(model_name), keyword)

BEARER == <<"b", "e", "a", "r", "e", "r", " ">>

strip_bearer(h) == IF startswith(lower(h), BEARER) THEN SliceFrom(h, 7) ELSE h

clean_api_key(auth_header) ==
    IF auth_header = <<>> THEN <<>>
    ELSE strip(strip_bearer(strip_bearer(auth_header)))

---------------------------------------------------------------------------
(* Messages and prompts.  A message content and a prompt are sequences of  *)
(* text segments; concatenation is \o and an empty delimiter adds nothing. *)

SOCRATIC_SYSTEM_PROMPT == <<"SOCRATIC_SYSTEM_PROMPT">>
PROMPT_SEPARATOR == <<"\n\n---\n\n">>

Seg(s) == IF s = "" THEN <<>> ELSE <<s>>

premade_instruct ==
    [ alpaca |->
        [system_start |-> "\n### Input: ", system_end |-> "",
         user_start |-> "\n### Instruction: ", user_end |-> "",
         assistant_start |-> "\n### Response: ", assistant_end |-> ""],
      vicuna |->
        [system_start |-> "\nSYSTEM: ", system_end |-> "",
         user_start |-> "\nUSER: ", user_end |-> "",
         assistant_start |-> "\nASSISTANT: ", assistant_end |-> ""],
      llama3 |->
        [system_start |-> "<|start_header_id|>system<|end_header_id|>\n\n",
         system_end |-> "<|eot_id|>",
         user_start |-> "<|eot_id|><|start_header_id|>user<|end_header_id|>\n\n",
         user_end |-> "<|eot_id|>",
         assistant_start |-> "<|start_header_id|>assistant<|end_header_id|>\n\n",
         assistant_end |-> "<|eot_id|>"],
      chatml |->
        [system_start |-> "<|im_start|>system\n", system_end |-> "<|im_end|>\n",
         user_start |-> "<|im_start|>user\n", user_end |-> "<|im_end|>\n",
         assistant_start |-> "<|im_start|>assistant\n", assistant_end |-> "<|im_end|>\n"],
      commandr |->
        [system_start |-> "<|START_OF_TURN_TOKEN|><|SYSTEM_TOKEN|>",
         system_end |-> "<|END_OF_TURN_TOKEN|>",
         user_start |-> "<|START_OF_TURN_TOKEN|><|USER_TOKEN|>",
         user_end |-> "<|END_OF_TURN_TOKEN|>",
         assistant_start |-> "<|START_OF_TURN_TOKEN|><|CHATBOT_TOKEN|>",
         assistant_end |-> "<|END_OF_TURN_TOKEN|>"],
      mistral |->
        [system_start |-> "", system_end |-> "",
         user_start |-> "[INST] ", user_end |-> "",
         assistant_start |-> " [/INST]", assistant_end |-> "</s> "],
      gemma2 |->
        [system_start |-> "<start_of_turn>system\n", system_end |-> "<end_of_turn>\n",
         user_start |-> "<start_of_turn>user\n", user_end |-> "<end_of_turn>\n",
         assistant_start |-> "<start_of_turn>model\n", assistant_end |-> "<end_of_turn>\n"] ]

\* the key of premade_instruct a preset name stands for ("llama-3" and
\* "command-r" are not record field names)
preset_key(preset) ==
    CASE preset = "llama-3" -> "llama3"
      [] preset = "command-r" -> "commandr"
      [] OTHER -> preset

has_system(messages) == \E i \in 1..Len(messages) : messages[i].role = "system"

\* an injection that puts the new system message after the caller's messages
inject_system_prompt_appended(messages, use_socratic) ==
    IF ~use_socratic THEN messages
    ELSE IF has_system(messages)
         THEN LET k == Min({i \in 1..Len(messages) : messages[i].role = "system"})
              IN [messages EXCEPT ![k].content =
                      SOCRATIC_SYSTEM_PROMPT \o PROMPT_SEPARATOR \o messages[k].content]
         ELSE messages \o <<[role |-> "system", content |-> SOCRATIC_SYSTEM_PROMPT]>>

\* an injection that replaces the caller's system message
inject_system_prompt_replaced(messages, use_socratic) ==
    IF ~use_socratic THEN messages
    ELSE IF has_system(messages)
         THEN LET k == Min({i \in 1..Len(messages) : messages[i].role = "system"})
              IN [messages EXCEPT ![k].content = SOCRATIC_SYSTEM_PROMPT]
         ELSE <<[role |-> "system", content |-> SOCRATIC_SYSTEM_PROMPT]>> \o messages

\* The list inject_system_prompt returns.
inject_system_prompt(messages, use_socratic) ==
    IF ~use_socratic THEN messages
    ELSE IF has_system(messages)
         THEN LET k == Min({i \in 1..Len(messages) : messages[i].role = "system"})
              IN [messages EXCEPT ![k].content =
                      SOCRATIC_SYSTEM_PROMPT \o PROMPT_SEPARATOR \o messages[k].content]
         ELSE <<[role |-> "system", content |-> SOCRATIC_SYSTEM_PROMPT]>> \o messages

\* json_data["messages"] after operation() ran inject_system_prompt on its
\* .copy(): the copy is shallow, so msg["content"] = ... (line 311) writes
\* into the caller's message object, while insert (line 315) only changes
\* the copied list.
messages_after_inject(messages, use_socratic) ==
    IF use_socratic /\ has_system(messages)
    THEN inject_system_prompt(messages, use_socratic)
    ELSE messages

role_start(adapter_obj, role) ==
    CASE role = "system" -> Seg(adapter_obj.system_start)
      [] role = "user" -> Seg(adapter_obj.user_start)
      [] role = "assistant" -> Seg(adapter_obj.assistant_start)
      [] OTHER -> <<>>

role_end(adapter_obj, role) ==
    CASE role = "system" -> Seg(adapter_obj.system_end)
      [] role = "user" -> Seg(adapter_obj.user_end)
      [] role = "assistant" -> Seg(adapter_obj.assistant_end)
      [] OTHER -> <<>>

RECURSIVE messages_string(_, _)
messages_string(messages_list, adapter_obj) ==
    IF messages_list = <<>> THEN <<>>
    ELSE LET message == Head(messages_list)
         IN role_start(adapter_obj, message.role) \o message.content
                \o role_end(adapter_obj, message.role)
                \o messages_string(Tail(messages_list), adapter_obj)

\* a flattening that also closes the turn it opens for the model
messageGenerator_closed_turn(messages_list, preset) ==
    LET adapter_obj == premade_instruct[preset_key(preset)]
    IN messages_string(messages_list, adapter_obj)
           \o Seg(adapter_obj.assistant_start) \o Seg(adapter_obj.assistant_end)

\* the keys of premade_instruct
PresetNames == {"alpaca", "vicuna", "llama-3", "chatml", "command-r", "mistral", "gemma2"}

\* premade_instruct[preset] (line 328) raises KeyError
raises_KeyError(preset) == preset \notin PresetNames

messageGenerator(messages_list, preset) ==
    LET adapter_obj == premade_instruct[preset_key(preset)]
    IN messages_string(messages_list, adapter_obj) \o Seg(adapter_obj.assistant_start)

---------------------------------------------------------------------------
(* Configuration (lines 24-38) *)

Instruct_Preset == "chatml"
stop_token == ""
THINKING_MIN_TOKENS == 50
THINKING_MAX_TOKENS == 5000
DEFAULT_MAX_TOKENS == 2048
NON_THINKING_MIN_TOKENS == 50
REQUEST_TIMEOUT == 300
COMPLETIONS_PATH == "https://api.totalgpt.ai/v1/completions"

---------------------------------------------------------------------------
(* Routes (lines 626-676): the preset and the use_socratic flag each POST  *)
(* route hands to operation()                                              *)

Routes ==
    {"/", "/socratic", "/raw", "/chatml", "/llama-3", "/mistral",
     "/alpaca", "/vicuna", "/command-r", "/gemma2"}

route_adapter(route) ==
    CASE route = "/" -> Instruct_Preset
      [] route = "/socratic" -> "chatml"
      [] route = "/raw" -> "chatml"
      [] route = "/chatml" -> "chatml"
      [] route = "/llama-3" -> "llama-3"
      [] route = "/mistral" -> "mistral"
      [] route = "/alpaca" -> "alpaca"
      [] route = "/vicuna" -> "vicuna"
      [] route = "/command-r" -> "command-r"
      [] route = "/gemma2" -> "gemma2"

\* every route injecting the instruction
route_use_socratic_always(route) == TRUE

route_use_socratic(route) == route # "/raw"

---------------------------------------------------------------------------
(* Responses of the adapter.  An optional JSON field is <<>> when absent   *)
(* and <<value>> when present.                                             *)

ErrorBody(message, type) ==
    [kind |-> "error", message |-> message, type |-> type,
     role |-> "", content |-> <<>>, reasoning_content |-> <<>>]

\* result with choices[0]["message"] = {role: assistant, content, reasoning_content?}
CompletionBody(content, reasoning_content) ==
    [kind |-> "completion", message |-> "", type |-> "",
     role |-> "assistant", content |-> content, reasoning_content |-> reasoning_content]

\* Response(stream_with_context(generator), content_type='text/plain')
StreamBody ==
    [kind |-> "stream", message |-> "", type |-> "",
     role |-> "", content |-> <<>>, reasoning_content |-> <<>>]

\* the traceback page of the Werkzeug debugger (HTML, not JSON)
DebuggerBody ==
    [kind |-> "html", message |-> "", type |-> "",
     role |-> "", content |-> <<>>, reasoning_content |-> <<>>]

Reply(status_code, body) == [status_code |-> status_code, body |-> body]

\* An exception leaves a view function.  Served by a WSGI server, Flask calls
\* internal_error (lines 684-686).  Started as the module documents ('python
\* socratic_c_tutor.py', line 698: app.run(debug=True)), Flask propagates
\* the exception instead of calling the 500 handler, and the debugger
\* answers with its traceback page.
unhandled_exception_replies ==
    { Reply(500, ErrorBody("Internal server error", "server_error")),
      Reply(500, DebuggerBody) }

---------------------------------------------------------------------------
(* operation(): validation and request construction (lines 518-592)        *)

\* validation_error with the messages check moved before the credential check
validation_error_messages_first(api_key_openai, json_data) ==
    IF json_data.messages = <<>> \/ json_data.messages[1] = <<>>
    THEN <<Reply(400, ErrorBody("Missing messages field", "invalid_request"))>>
    ELSE IF api_key_openai = <<>>
    THEN <<Reply(401, ErrorBody("Missing API key", "authentication_error"))>>
    ELSE IF json_data.model = <<>> \/ json_data.model[1] = <<>>
    THEN <<Reply(400, ErrorBody("Missing model field", "invalid_request"))>>
    ELSE <<>>

\* <<>> when the request is valid, else <<the reply returned early>>
validation_error(api_key_openai, json_data) ==
    IF api_key_openai = <<>>
    THEN <<Reply(401, ErrorBody("Missing API key", "authentication_error"))>>
    ELSE IF json_data.messages = <<>> \/ json_data.messages[1] = <<>>
    THEN <<Reply(400, ErrorBody("Missing messages field", "invalid_request"))>>
    ELSE IF json_data.model = <<>> \/ json_data.model[1] = <<>>
    THEN <<Reply(400, ErrorBody("Missing model field", "invalid_request"))>>
    ELSE <<>>

requested_max_tokens(json_data) ==
    IF json_data.max_tokens = <<>> THEN DEFAULT_MAX_TOKENS ELSE json_data.max_tokens[1]

\* compute_max_tokens with '<=' for '<' at the floor and no ceiling
compute_max_tokens_no_ceiling(requested, thinking_model) ==
    IF requested <= THINKING_MIN_TOKENS THEN THINKING_MIN_TOKENS ELSE requested

compute_max_tokens(requested, thinking_model) ==
    IF thinking_model
    THEN IF requested < THINKING_MIN_TOKENS
         THEN THINKING_MIN_TOKENS
         ELSE (IF requested <= THINKING_MAX_TOKENS THEN requested ELSE THINKING_MAX_TOKENS)
    ELSE IF requested >= NON_THINKING_MIN_TOKENS THEN requested ELSE NON_THINKING_MIN_TOKENS

stoplist == <<"\n{{user}}:", "<|im_end|>">> \o Seg(stop_token)

build_config(api_key_openai, json_data, adapter, use_socratic) ==
    LET model_name == json_data.model[1]
        messages == inject_system_prompt(json_data.messages[1], use_socratic)
        thinking_model == is_thinking_model(model_name)
        newbody ==
            [prompt |-> messageGenerator(messages, adapter),
             model |-> model_name,
             max_tokens |-> compute_max_tokens(requested_max_tokens(json_data), thinking_model),
             temperature |-> IF json_data.temperature # <<>> THEN json_data.temperature[1]
                             ELSE IF thinking_model THEN "0.6" ELSE "0.7",
             stream |-> json_data.stream,
             top_p |-> "0.95",
             top_k |-> 20,
             stop |-> stoplist]
    IN [url |-> COMPLETIONS_PATH,
        Authorization |-> <<"B", "e", "a", "r", "e", "r", " ">> \o api_key_openai,
        json |-> newbody,
        timeout |-> REQUEST_TIMEOUT]

---------------------------------------------------------------------------
(* What the remote endpoint can answer to one requests.post                *)

Statuses == {200, 304, 429, 500}

\* kind "exception": requests.post raised a RequestException (no response).
\* kind "response": status and body arrived; json says what response.json()
\* finds: "invalid" (not JSON), "scalar" (a JSON number or null), "list",
\* or "dict" with its optional "choices" list and optional error message.
Outcome(kind, status_code, json, choices, error) ==
    [kind |-> kind, status_code |-> status_code, json |-> json,
     choices |-> choices, error |-> error]

TransportFailure == Outcome("exception", 0, "none", <<>>, <<>>)

\* a choice is [text |-> <<>> or <<text>>]
CompletionTexts ==
    { <<"H", "i", ".", " ", "a">>,
      THINK_OPEN \o <<"a">> \o THINK_CLOSE \o <<"b", ".", " ", "c">>,
      THINK_OPEN \o <<"a">> }

ChoiceLists ==
    {<<>>, <<[text |-> <<>>]>>} \cup {<<[text |-> <<t>>]>> : t \in CompletionTexts}

UpstreamBodies ==
    {Outcome("response", 0, j, <<>>, <<>>) : j \in {"invalid", "scalar", "list"}}
    \cup {Outcome("response", 0, "dict", c, e) :
            c \in {<<>>} \cup {<<l>> : l \in ChoiceLists},
            e \in {<<>>, <<"upstream error">>}}

UpstreamOutcomes ==
    {TransportFailure}
    \cup {[b EXCEPT !.status_code = st] : b \in UpstreamBodies, st \in Statuses}

---------------------------------------------------------------------------
(* normalGeneration (lines 464-510): the replies it can return for one     *)
(* upstream outcome                                                        *)

\* response.json() on a body that is not JSON: requests >= 2.27 raises its
\* own JSONDecodeError, which is a RequestException (first handler, line 505);
\* older versions raise json.JSONDecodeError (second handler, line 508).
invalid_json_replies ==
    { Reply(500, ErrorBody("str(e)", "network_error")),
      Reply(500, ErrorBody("Invalid JSON response", "parse_error")) }

has_choices(outcome) ==
    outcome.json = "dict" /\ outcome.choices # <<>> /\ outcome.choices[1] # <<>>

\* result["choices"][0].get("text", "")
original_text(outcome) ==
    LET choice == outcome.choices[1][1]
    IN IF choice.text = <<>> THEN <<>> ELSE choice.text[1]

\* a success body that parses the think delimiters for every model
success_body_always_parsed(outcome, thinking_model) ==
    LET p == parse_thinking_content(original_text(outcome))
    IN CompletionBody(
           IF p.final_answer # <<>> THEN autoTrim(p.final_answer, FALSE) ELSE <<>>,
           IF p.thinking_content # <<>> THEN <<p.thinking_content>> ELSE <<>>)

success_body(outcome, thinking_model) ==
    IF thinking_model
    THEN LET p == parse_thinking_content(original_text(outcome))
         IN CompletionBody(
                IF p.final_answer # <<>> THEN autoTrim(p.final_answer, FALSE) ELSE <<>>,
                IF p.thinking_content # <<>> THEN <<p.thinking_content>> ELSE <<>>)
    ELSE CompletionBody(autoTrim(original_text(outcome), FALSE), <<>>)

\* result.get("error", {}).get("message", "Unknown error") if isinstance(result, dict)
\* else "API Error"
error_message(outcome) ==
    IF outcome.json = "dict"
    THEN (IF outcome.error # <<>> THEN outcome.error[1] ELSE "Unknown error")
    ELSE "API Error"

normalGeneration(outcome, thinking_model) ==
    IF outcome.kind = "exception"
    THEN {Reply(500, ErrorBody("str(e)", "network_error"))}
    ELSE IF outcome.json = "invalid"
    THEN invalid_json_replies
    ELSE IF outcome.status_code <= 299 /\ outcome.json = "scalar"
    THEN \* '"choices" in result' raises TypeError, which no handler catches
         unhandled_exception_replies
    ELSE IF outcome.status_code <= 299 /\ has_choices(outcome)
    THEN {Reply(200, success_body(outcome, thinking_model))}
    ELSE {Reply(outcome.status_code, ErrorBody(error_message(outcome), "api_error"))}

---------------------------------------------------------------------------
(* streamGeneration (lines 415-461)                                        *)

\* The lines response.iter_lines() can deliver.
\*   empty      a blank line (skipped by 'if line')
\*   done       the sentinel 'data: [DONE]'
\*   chunk      'data: {"choices": [{"text": <text>}]}'
\*   nochoices  JSON without a non-empty "choices" (re-serialised as it is)
\*   badjson    a payload json.loads rejects (JSONDecodeError)
\*   badshape   JSON on which the handler raises TypeError or AttributeError,
\*              such as 'data: null' or 'data: {"choices": [5]}'
Line(kind, t) == [kind |-> kind, text |-> t]

Fragments == {THINK_OPEN, COLON_THINK_OPEN, <<"a">>, THINK_CLOSE}

Lines ==
    {Line(k, <<>>) : k \in {"empty", "done", "nochoices", "badjson", "badshape"}}
    \cup {Line("chunk", f) : f \in Fragments}

\* A frame the generator yields.
Event(kind, content, reasoning_content, type) ==
    [kind |-> kind, content |-> content,
     reasoning_content |-> reasoning_content, type |-> type]

DoneFrame == Event("done", <<>>, <<>>, "")
PassthroughFrame == Event("passthrough", <<>>, <<>>, "")
ErrorFrame(type) == Event("error", <<>>, <<>>, type)

\* a frame that carries the accumulated text as its content
chunk_frame_accumulated(chunk_text, accumulated_text, thinking_model) ==
    LET p == parse_thinking_content(accumulated_text)
    IN Event("data", accumulated_text,
             IF thinking_model /\ p.thinking_content # <<>>
             THEN <<p.thinking_content>> ELSE <<>>,
             "")

\* the frame for a chunk, given the accumulated text including that chunk
chunk_frame(chunk_text, accumulated_text, thinking_model) ==
    LET p == parse_thinking_content(accumulated_text)
    IN Event("data", chunk_text,
             IF thinking_model /\ p.thinking_content # <<>>
             THEN <<p.thinking_content>> ELSE <<>>,
             "")

\* bool(response) of a requests.Response is response.ok: False for the 4xx
\* and 5xx statuses raise_for_status() raises on.
response_truthy(status_code) == status_code < 400

\* response.raise_for_status()
raises_for_status(status_code) == status_code >= 400 /\ status_code < 600

\* lines 458-461; error is an upstream outcome: an exception without response
\* (error.response is None) or the response raise_for_status() raised on
stream_error_type(error) ==
    IF error.kind = "response" /\ response_truthy(error.status_code)
                               /\ error.status_code = 429
    THEN "rate_limit_exceeded"
    ELSE "api_error"

NoGenerator == [state |-> "none", is_thinking_model |-> FALSE, accumulated_text |-> <<>>]

\* One turn of the loop over the lines (426-452) for a generator whose locals
\* are g: the locals after the turn and the frame it yields, if any.
stream_turn(g, line) ==
    IF line.kind = "chunk"
    THEN LET accumulated_text == g.accumulated_text \o line.text
         IN [gen |-> [g EXCEPT !.accumulated_text = accumulated_text],
             frames |-> <<chunk_frame(line.text, accumulated_text, g.is_thinking_model)>>]
    ELSE IF line.kind = "nochoices"
    THEN [gen |-> g, frames |-> <<PassthroughFrame>>]
    ELSE IF line.kind = "done"
    THEN [gen |-> g, frames |-> <<DoneFrame>>]
    ELSE IF line.kind = "badshape"
    THEN \* neither JSONDecodeError nor KeyError nor RequestException:
         \* the exception leaves the generator
         [gen |-> [g EXCEPT !.state = "crashed"], frames |-> <<>>]
    ELSE \* "empty" and "badjson": nothing is yielded
         [gen |-> g, frames |-> <<>>]

---------------------------------------------------------------------------
(* The requests the adapter is exercised on *)

ApiKey == <<"s", "k">>
BearerPrefix == <<"B", "e", "a", "r", "e", "r", " ">>

AuthHeaders == {<<>>, BearerPrefix, ApiKey, BearerPrefix \o ApiKey}

ModelNames == {<<"Q", "w", "e", "n", "3">>, <<"l", "l", "a", "m", "a">>}

UserMessage == [role |-> "user", content |-> <<"hi">>]
SystemMessage == [role |-> "system", content |-> <<"be brief">>]
AssistantMessage == [role |-> "assistant", content |-> <<"hello">>]
FollowUpMessage == [role |-> "user", content |-> <<"why?">>]

TokenValues == {-1, 10, 49, 50, 51, 4999, 5000, 5001, 999999}

JsonData(messages, model, max_tokens, stream) ==
    [messages |-> messages, model |-> model, max_tokens |-> max_tokens,
     temperature |-> <<>>, stream |-> stream]

Request(route, auth, json_data) == [route |-> route, auth |-> auth, json_data |-> json_data]

\* every combination of the three validated fields; the bare key, which
\* clean_api_key passes on as it is, is exercised in non-streaming mode
ValidationRequests ==
    {Request("/socratic", a, JsonData(m, n, <<>>, st)) :
        a \in AuthHeaders \ {ApiKey},
        m \in {<<>>, <<<<>>>>, <<<<UserMessage>>>>},
        n \in {<<>>, <<<<>>>>} \cup {<<x>> : x \in ModelNames},
        st \in BOOLEAN}
    \cup {Request("/socratic", ApiKey, JsonData(m, n, <<>>, FALSE)) :
             m \in {<<>>, <<<<>>>>, <<<<UserMessage>>>>},
             n \in {<<>>, <<<<>>>>} \cup {<<x>> : x \in ModelNames}}

\* every requested max_tokens for both classes of model (max_tokens is
\* computed before the two modes part, line 594)
TokenRequests ==
    {Request("/socratic", BearerPrefix \o ApiKey,
             JsonData(<<<<UserMessage>>>>, <<n>>, <<t>>, FALSE)) :
        n \in ModelNames, t \in TokenValues}
    \cup {Request("/socratic", BearerPrefix \o ApiKey,
                  JsonData(<<<<UserMessage>>>>, <<<<"Q", "w", "e", "n", "3">>>>,
                           <<999999>>, TRUE))}

\* every route, with and without a system message of the caller
RouteRequests ==
    {Request(r, BearerPrefix \o ApiKey, JsonData(<<m>>, <<n>>, <<>>, FALSE)) :
        r \in Routes,
        m \in {<<UserMessage>>, <<SystemMessage, UserMessage>>,
               <<UserMessage, AssistantMessage, FollowUpMessage>>},
        n \in ModelNames}

\* every route, with each validated field present or missing
RouteValidationRequests ==
    {Request(r, a, JsonData(m, n, <<>>, FALSE)) :
        r \in Routes,
        a \in AuthHeaders,
        m \in {<<>>, <<<<>>>>, <<<<UserMessage>>>>},
        n \in {<<>>, <<<<"Q", "w", "e", "n", "3">>>>}}

\* a caller who sends the text of the instruction as its own system message
InstructionMessage == [role |-> "system", content |-> SOCRATIC_SYSTEM_PROMPT]

RawRequests ==
    {Request("/raw", BearerPrefix \o ApiKey,
             JsonData(<<<<InstructionMessage, UserMessage>>>>,
                      <<<<"l", "l", "a", "m", "a">>>>, <<>>, FALSE))}

Requests ==
    ValidationRequests \cup TokenRequests \cup RouteRequests
        \cup RouteValidationRequests \cup RawRequests

---------------------------------------------------------------------------
(* Initial state: the server is up and no request has arrived *)

\* the module-level settings (lines 24-38); no handler assigns any of them
StartupSettings ==
    [Instruct_Preset |-> Instruct_Preset, stop_token |-> stop_token,
     auto_trim |-> auto_trim,
     THINKING_MIN_TOKENS |-> THINKING_MIN_TOKENS,
     THINKING_MAX_TOKENS |-> THINKING_MAX_TOKENS,
     COMPLETIONS_PATH |-> COMPLETIONS_PATH]

\* the two requests of SpecConcurrent
Handlers == {"A", "B"}

NoStream == [gen |-> NoGenerator, received |-> <<>>, events |-> <<>>]

\* no pure function is under test
NoCall ==
    /\ text = <<>>
    /\ parsed = <<>>
    /\ call = <<>>
    /\ result = <<>>

\* no request has arrived
NoRequest ==
    /\ request = <<>>
    /\ sent = <<>>
    /\ upstream = <<>>
    /\ response = <<>>
    /\ gen = NoGenerator
    /\ buffered = <<>>
    /\ received = <<>>
    /\ events = <<>>
    /\ consumer = "reading"

NoStreams == streams = [h \in Handlers |-> NoStream]

Init ==
    /\ NoCall
    /\ NoRequest
    /\ NoStreams
    /\ settings = StartupSettings

---------------------------------------------------------------------------
(* Actions *)

\* request as the handler leaves it: json_data is the live object, body the
\* JSON as it arrived
stored_request(req) ==
    LET use_socratic == route_use_socratic(req.route)
        m == req.json_data.messages
    IN [route |-> req.route, auth |-> req.auth, body |-> req.json_data,
        json_data |-> IF m = <<>> \/ m[1] = <<>> THEN req.json_data
                      ELSE [req.json_data EXCEPT
                               !.messages = <<messages_after_inject(m[1], use_socratic)>>]]

\* A POST route calls operation(request.json, adapter, use_socratic); in
\* non-streaming mode the call to the remote endpoint is part of it.
operation(req) ==
    /\ request = <<>>
    /\ LET api_key_openai == clean_api_key(req.auth)
           invalid == validation_error(api_key_openai, req.json_data)
       IN IF invalid # <<>>
          THEN /\ request' = <<[stored_request(req) EXCEPT !.json_data = req.json_data]>>
               /\ response' = invalid
               /\ UNCHANGED <<sent, upstream, gen>>
          ELSE LET config == build_config(api_key_openai, req.json_data,
                                          route_adapter(req.route),
                                          route_use_socratic(req.route))
                   thinking_model == is_thinking_model(req.json_data.model[1])
               IN /\ request' = <<stored_request(req)>>
                  /\ IF req.json_data.stream
                     THEN /\ response' = <<Reply(200, StreamBody)>>
                          /\ gen' = [state |-> "created",
                                     is_thinking_model |-> thinking_model,
                                     accumulated_text |-> <<>>]
                          /\ UNCHANGED <<sent, upstream>>
                     ELSE /\ \E outcome \in UpstreamOutcomes :
                               /\ upstream' = <<outcome>>
                               /\ \E reply \in normalGeneration(outcome, thinking_model) :
                                     response' = <<reply>>
                          /\ sent' = <<config>>
                          /\ UNCHANGED gen
    /\ UNCHANGED <<pureVars, buffered, received, events, consumer, streams, settings>>

\* the config operation() built for the request (kept by the generator)
request_config ==
    LET req == request[1]
    IN build_config(clean_api_key(req.auth), req.body,
                    route_adapter(req.route), route_use_socratic(req.route))

\* 'yield frame' leaving the generator as g.  The server writes the frame to
\* the caller; when the caller has gone the write fails, the server closes
\* the generator (GeneratorExit at the yield) and leaving the with block
\* closes the upstream response.
yield(frame, g) ==
    IF consumer = "closed"
    THEN /\ gen' = [g EXCEPT !.state = "closed"]
         /\ UNCHANGED events
    ELSE /\ gen' = g
         /\ events' = Append(events, frame)

\* a generator that posts a second time when the connection fails
stream_open_retrying(outcome) ==
    /\ gen.state = "created"
    /\ sent' = IF outcome.kind = "exception"
               THEN sent \o <<request_config, request_config>>
               ELSE Append(sent, request_config)
    /\ upstream' = <<outcome>>
    /\ IF outcome.kind = "exception"
       THEN yield(ErrorFrame(stream_error_type(outcome)), [gen EXCEPT !.state = "finished"])
       ELSE /\ gen' = [gen EXCEPT !.state = "posting", !.accumulated_text = <<>>]
            /\ UNCHANGED events
    /\ UNCHANGED <<pureVars, request, response, buffered, received, consumer, streams, settings>>

\* First next() on the generator: requests.post(**config) sends the request;
\* the connection fails or the status line of the answer arrives.
stream_open(outcome) ==
    /\ gen.state = "created"
    /\ sent' = Append(sent, request_config)
    /\ upstream' = <<outcome>>
    /\ IF outcome.kind = "exception"
       THEN yield(ErrorFrame(stream_error_type(outcome)), [gen EXCEPT !.state = "finished"])
       ELSE /\ gen' = [gen EXCEPT !.state = "posting", !.accumulated_text = <<>>]
            /\ UNCHANGED events
    /\ UNCHANGED <<pureVars, request, response, buffered, received, consumer, streams, settings>>

\* config carries no 'stream' key (lines 583-592), so requests.post reads
\* the whole body of the answer before it returns: one more line of it
\* arrives.  Only a 2xx answer is given a body here: raise_for_status()
\* discards the body of an error answer and a 304 has none.
stream_read(line) ==
    /\ gen.state = "posting"
    /\ upstream[1].status_code >= 200 /\ upstream[1].status_code <= 299
    /\ Len(buffered) < MaxLines
    /\ buffered' = Append(buffered, line)
    /\ UNCHANGED <<pureVars, request, sent, upstream, response, gen, received,
                   events, consumer, streams, settings>>

\* The connection breaks (or the timeout passes) while requests.post reads
\* the body: it raises a RequestException.
stream_fail ==
    /\ gen.state = "posting"
    /\ upstream' = Append(upstream, TransportFailure)
    /\ yield(ErrorFrame(stream_error_type(TransportFailure)),
             [gen EXCEPT !.state = "finished"])
    /\ UNCHANGED <<pureVars, request, sent, response, buffered, received, consumer,
                   streams, settings>>

\* The remote endpoint ends the body: requests.post returns the response and
\* response.raise_for_status() runs.
stream_returned ==
    /\ gen.state = "posting"
    /\ IF raises_for_status(upstream[1].status_code)
       THEN yield(ErrorFrame(stream_error_type(upstream[1])),
                  [gen EXCEPT !.state = "finished"])
       ELSE /\ gen' = [gen EXCEPT !.state = "open"]
            /\ UNCHANGED events
    /\ UNCHANGED <<pureVars, request, sent, upstream, response, buffered, received,
                   consumer, streams, settings>>

\* One turn of 'for line in response.iter_lines()' over the body read.
stream_line(line) ==
    /\ gen.state = "open"
    /\ Len(received) < Len(buffered)
    /\ line = buffered[Len(received) + 1]
    /\ received' = Append(received, line)
    /\ LET turn == stream_turn(gen, line)
       IN IF turn.frames = <<>>
          THEN /\ gen' = turn.gen
               /\ UNCHANGED events
          ELSE yield(turn.frames[1], turn.gen)
    /\ UNCHANGED <<pureVars, request, sent, upstream, response, buffered, consumer,
                   streams, settings>>

\* iter_lines() is exhausted.
stream_end ==
    /\ gen.state = "open"
    /\ Len(received) = Len(buffered)
    /\ gen' = [gen EXCEPT !.state = "finished"]
    /\ UNCHANGED <<pureVars, request, sent, upstream, response, buffered, received,
                   events, consumer, streams, settings>>

\* The caller closes its side of the stream while the generator is at work.
caller_close ==
    /\ gen.state \in {"posting", "open"}
    /\ consumer = "reading"
    /\ consumer' = "closed"
    /\ UNCHANGED <<pureVars, request, sent, upstream, response, gen, buffered,
                   received, events, streams, settings>>

StreamOpenOutcomes ==
    {TransportFailure} \cup {Outcome("response", st, "none", <<>>, <<>>) : st \in Statuses}

Next ==
    \/ \E req \in Requests : operation(req)
    \/ \E outcome \in StreamOpenOutcomes : stream_open(outcome)
    \/ \E line \in Lines : stream_read(line)
    \/ stream_fail
    \/ stream_returned
    \/ \E line \in Lines : stream_line(line)
    \/ stream_end
    \/ caller_close

Spec == Init /\ [][Next]_vars

---------------------------------------------------------------------------
(* SpecParse: parse_thinking_content applied to every text of ParseTexts *)

InitParse ==
    /\ text \in ParseTexts
    /\ parsed = <<>>
    /\ call = <<>>
    /\ result = <<>>
    /\ NoRequest
    /\ NoStreams
    /\ settings = StartupSettings

Parse ==
    /\ parsed = <<>>
    /\ parsed' = <<parse_thinking_content(text)>>
    /\ UNCHANGED <<text, call, result, requestVars, streams, settings>>

NextParse == Parse

SpecParse == InitParse /\ [][NextParse]_vars

---------------------------------------------------------------------------
(* SpecFlatten: operation() reaching 'prompt = messageGenerator(messages,  *)
(* adapter)' (line 536) for every message list of FlattenLists and every   *)
(* preset name of FlattenPresets                                           *)

Roles == {"system", "user", "assistant", "tool"}

FlattenMessages == {[role |-> r, content |-> c] : r \in Roles, c \in {<<>>, <<"m">>, <<"n">>}}

RECURSIVE ListsUpTo(_, _)
ListsUpTo(S, n) ==
    IF n = 0 THEN {<<>>}
    ELSE LET shorter == ListsUpTo(S, n - 1)
         IN shorter \cup {Append(l, x) : l \in {k \in shorter : Len(k) = n - 1}, x \in S}

FlattenLists == ListsUpTo(FlattenMessages, MaxMessages)

\* the seven names of the table and two names outside it
FlattenPresets == PresetNames \cup {"zephyr", "ChatML"}

InitFlatten ==
    /\ call \in {[messages_list |-> l, preset |-> p] : l \in FlattenLists, p \in FlattenPresets}
    /\ result = <<>>
    /\ text = <<>>
    /\ parsed = <<>>
    /\ NoRequest
    /\ NoStreams
    /\ settings = StartupSettings

\* the call returns a prompt, or raises KeyError, which leaves operation()
\* and the view function
Flatten ==
    /\ result = <<>>
    /\ IF raises_KeyError(call.preset)
       THEN \E reply \in unhandled_exception_replies :
                result' = <<[raised |-> "KeyError", prompt |-> <<>>, reply |-> <<reply>>]>>
       ELSE result' = <<[raised |-> "",
                         prompt |-> messageGenerator(call.messages_list, call.preset),
                         reply |-> <<>>]>>
    /\ UNCHANGED <<text, parsed, call, requestVars, streams, settings>>

NextFlatten == Flatten

SpecFlatten == InitFlatten /\ [][NextFlatten]_vars

---------------------------------------------------------------------------
(* SpecTrim: trim_to_end_sentence applied to every text of TrimTexts *)

TrimChars == {"a", ".", "!", " ", "\n"}

TrimTexts == ListsUpTo(TrimChars, MaxPieces)

InitTrim ==
    /\ call \in {[input_str |-> t, include_newline |-> b] : t \in TrimTexts, b \in BOOLEAN}
    /\ result = <<>>
    /\ text = <<>>
    /\ parsed = <<>>
    /\ NoRequest
    /\ NoStreams
    /\ settings = StartupSettings

Trim ==
    /\ result = <<>>
    /\ result' = <<trim_to_end_sentence(call.input_str, call.include_newline)>>
    /\ UNCHANGED <<text, parsed, call, requestVars, streams, settings>>

NextTrim == Trim

SpecTrim == InitTrim /\ [][NextTrim]_vars

---------------------------------------------------------------------------
(* SpecKey: the credential path of operation() (lines 518-521 and 587)     *)
(* for every Authorization header of KeyHeaders                            *)

KeyPieces ==
    { BearerPrefix, BEARER, <<"B", "E", "A", "R", "E", "R", " ">>, ApiKey, <<" ">> }

RECURSIVE HeadersUpTo(_)
HeadersUpTo(n) ==
    IF n = 0 THEN {<<>>}
    ELSE LET shorter == HeadersUpTo(n - 1)
         IN shorter \cup {h \o piece : h \in shorter, piece \in KeyPieces}

\* request.headers.get('Authorization', ''): the empty header stands for an
\* absent one as well
KeyHeaders == HeadersUpTo(MaxPieces)

InitKey ==
    /\ call \in {[auth_header |-> h] : h \in KeyHeaders}
    /\ result = <<>>
    /\ text = <<>>
    /\ parsed = <<>>
    /\ NoRequest
    /\ NoStreams
    /\ settings = StartupSettings

\* operation() on a request whose body is valid: the 401 reply, or the
\* Authorization header of the config handed to requests.post
Authorize ==
    /\ result = <<>>
    /\ LET api_key_openai == clean_api_key(call.auth_header)
           json_data == JsonData(<<<<UserMessage>>>>, <<<<"l", "l", "a", "m", "a">>>>,
                                 <<>>, FALSE)
           invalid == validation_error(api_key_openai, json_data)
       IN result' =
              IF invalid # <<>>
              THEN <<[reply |-> invalid, forwarded |-> <<>>]>>
              ELSE <<[reply |-> <<>>,
                      forwarded |-> <<build_config(api_key_openai, json_data,
                                                   "chatml", TRUE).Authorization>>]>>
    /\ UNCHANGED <<text, parsed, call, requestVars, streams, settings>>

NextKey == Authorize

SpecKey == InitKey /\ [][NextKey]_vars

---------------------------------------------------------------------------
(* SpecConcurrent: two streaming requests handled at the same time (the    *)
(* server runs one generator per request); each generator has passed       *)
(* raise_for_status() and loops over the lines of its own upstream answer  *)

ConcurrentLines == {Line("chunk", f) : f \in {THINK_OPEN, <<"a">>, THINK_CLOSE}}

OpenStreams ==
    {[gen |-> [state |-> "open", is_thinking_model |-> b, accumulated_text |-> <<>>],
      received |-> <<>>, events |-> <<>>] : b \in BOOLEAN}

InitConcurrent ==
    /\ NoCall
    /\ NoRequest
    /\ streams \in [Handlers -> OpenStreams]
    /\ settings = StartupSettings

\* a buffer shared by the two generators (the one of handler "A")
generator_locals_shared(ss, h) ==
    [ss[h].gen EXCEPT !.accumulated_text = ss["A"].gen.accumulated_text]

\* is_thinking_model and accumulated_text are a parameter and a local
\* variable (line 424) of the generator of h
generator_locals(ss, h) == ss[h].gen

\* one turn of the loop of the generator of h
concurrent_line(h, line) ==
    /\ streams[h].gen.state = "open"
    /\ Len(streams[h].received) < MaxLines
    /\ LET turn == stream_turn(generator_locals(streams, h), line)
       IN streams' = [streams EXCEPT ![h] =
                         [gen |-> turn.gen,
                          received |-> Append(streams[h].received, line),
                          events |-> streams[h].events \o turn.frames]]
    /\ UNCHANGED <<pureVars, requestVars, settings>>

\* the upstream of h ends its answer
concurrent_end(h) ==
    /\ streams[h].gen.state = "open"
    /\ streams' = [streams EXCEPT ![h].gen.state = "finished"]
    /\ UNCHANGED <<pureVars, requestVars, settings>>

NextConcurrent ==
    \/ \E h \in Handlers, line \in ConcurrentLines : concurrent_line(h, line)
    \/ \E h \in Handlers : concurrent_end(h)

SpecConcurrent == InitConcurrent /\ [][NextConcurrent]_vars

---------------------------------------------------------------------------
(* SpecInject: inject_system_prompt applied to every message list of       *)
(* FlattenLists, enabled and disabled                                      *)

InitInject ==
    /\ call \in {[messages |-> l, use_socratic |-> b] : l \in FlattenLists, b \in BOOLEAN}
    /\ result = <<>>
    /\ text = <<>>
    /\ parsed = <<>>
    /\ NoRequest
    /\ NoStreams
    /\ settings = StartupSettings

Inject ==
    /\ result = <<>>
    /\ result' = <<inject_system_prompt(call.messages, call.use_socratic)>>
    /\ UNCHANGED <<text, parsed, call, requestVars, streams, settings>>

NextInject == Inject

SpecInject == InitInject /\ [][NextInject]_vars

---------------------------------------------------------------------------
(* SpecAutoTrim: autoTrim applied to texts with and without a think block, *)
(* for both values of is_thinking, in a process started with auto_trim     *)
(* (line 33) set either way                                                *)

AutoTrimPieces == {THINK_OPEN, THINK_CLOSE, <<"a">>, <<".">>, <<" ">>}

RECURSIVE AutoTrimTextsUpTo(_)
AutoTrimTextsUpTo(n) ==
    IF n = 0 THEN {<<>>}
    ELSE LET prev == AutoTrimTextsUpTo(n - 1)
         IN prev \cup {t \o p : t \in prev, p \in AutoTrimPieces}

AutoTrimTexts == AutoTrimTextsUpTo(MaxPieces)

InitAutoTrim ==
    /\ call \in {[text |-> t, is_thinking |-> b] : t \in AutoTrimTexts, b \in BOOLEAN}
    /\ result = <<>>
    /\ text = <<>>
    /\ parsed = <<>>
    /\ NoRequest
    /\ NoStreams
    /\ settings \in {[StartupSettings EXCEPT !.auto_trim = b] : b \in BOOLEAN}

AutoTrim ==
    /\ result = <<>>
    /\ result' = <<autoTrim(call.text, call.is_thinking)>>
    /\ UNCHANGED <<text, parsed, call, requestVars, streams, settings>>

NextAutoTrim == AutoTrim

SpecAutoTrim == InitAutoTrim /\ [][NextAutoTrim]_vars

---------------------------------------------------------------------------
(* Properties *)

Last(q) == q[Len(q)]

MessagesMissing(body) == body.messages = <<>> \/ body.messages[1] = <<>>
ModelMissing(body) == body.model = <<>> \/ body.model[1] = <<>>

IsError(reply, status_code, type) ==
    /\ reply.status_code = status_code
    /\ reply.body.kind = "error"
    /\ reply.body.type = type

\* C1: every request to a POST route is validated in a fixed order: an empty
\* cleaned credential gives 401 authentication_error (also when messages or
\* model are missing as well); otherwise missing or empty messages give 400
\* invalid_request; otherwise a missing or empty model gives 400
\* invalid_request.
C1_ValidationOrder ==
    (request # <<>> /\ response # <<>>) =>
        LET req == request[1]
            reply == response[1]
        IN IF clean_api_key(req.auth) = <<>>
           THEN IsError(reply, 401, "authentication_error")
           ELSE IF MessagesMissing(req.body)
           THEN IsError(reply, 400, "invalid_request")
              /\ reply.body.message = "Missing messages field"
           ELSE IF ModelMissing(req.body)
           THEN IsError(reply, 400, "invalid_request")
              /\ reply.body.message = "Missing model field"
           ELSE reply.body.type \notin {"authentication_error", "invalid_request"}

\* a request with no credential, no messages and no model was answered
C1_Witness ==
    /\ request # <<>> /\ response # <<>>
    /\ clean_api_key(request[1].auth) = <<>>
    /\ request[1].auth # <<>>
    /\ request[1].route = "/gemma2"
    /\ MessagesMissing(request[1].body)
    /\ ModelMissing(request[1].body)
    /\ response[1].status_code = 401

StartsWithOpen(t) == startswith(t, THINK_OPEN) \/ startswith(t, COLON_THINK_OPEN)

\* length of the open delimiter the text starts with
LeadLen(t) == IF startswith(t, COLON_THINK_OPEN) THEN Len(COLON_THINK_OPEN) ELSE Len(THINK_OPEN)

FirstCloseAfterLead(t) ==
    Min({j \in LeadLen(t)..Len(t) : OccursAt(t, THINK_CLOSE, j)})

\* C2: for a text that starts with '<think>' or ':<think>' and holds no
\* '</think>', parseThinking returns reasoning = everything after the leading
\* open delimiter (untrimmed) and finalAnswer = "", also when further open
\* delimiters follow; it never falls through to the plain-answer case.
C2_UnclosedReasoning ==
    (parsed # <<>> /\ StartsWithOpen(text) /\ ~contains(text, THINK_CLOSE)) =>
        parsed[1] = [thinking_content |-> SliceFrom(text, LeadLen(text)),
                     final_answer |-> <<>>]

\* C3: for a text that starts with '<think>' or ':<think>' and holds a
\* '</think>' later, reasoning is the text strictly between the leading open
\* delimiter and the first close delimiter after it, trimmed, and finalAnswer
\* is the text after that close delimiter, trimmed.
C3_ClosedReasoning ==
    (parsed # <<>> /\ StartsWithOpen(text) /\ contains(text, THINK_CLOSE)) =>
        LET c == FirstCloseAfterLead(text)
        IN parsed[1] = [thinking_content |-> strip(Slice(text, LeadLen(text), c)),
                        final_answer |-> strip(SliceFrom(text, c + Len(THINK_CLOSE)))]

\* a parsed text with a closed leading block whose reasoning lost its
\* leading whitespace and whose answer is not empty
C3_Witness ==
    /\ parsed # <<>> /\ StartsWithOpen(text) /\ contains(text, THINK_CLOSE)
    /\ text[LeadLen(text) + 1] = " "
    /\ parsed[1].final_answer # <<>>

\* C4: the empty text parses to ("", ""); a non-empty text without any think
\* delimiter parses to reasoning "" and finalAnswer = the whole text,
\* unchanged.
C4_PlainText ==
    parsed # <<>> =>
        /\ text = <<>> => parsed[1] = [thinking_content |-> <<>>, final_answer |-> <<>>]
        /\ (text # <<>> /\ ~contains(text, THINK_OPEN) /\ ~contains(text, THINK_CLOSE)) =>
               parsed[1] = [thinking_content |-> <<>>, final_answer |-> text]

\* a parsed plain text that begins and ends with whitespace
C4_Witness ==
    /\ parsed # <<>> /\ Len(text) >= 3
    /\ ~contains(text, THINK_OPEN) /\ ~contains(text, THINK_CLOSE)
    /\ text[1] = " " /\ Last(text) = " "
    /\ parsed[1].final_answer = text

\* the max_tokens the caller asked for (2048 when absent)
Requested(body) == IF body.max_tokens = <<>> THEN 2048 ELSE body.max_tokens[1]

\* C5: for a thinking model the max_tokens forwarded upstream lies in
\* [50, 5000] and equals the requested value whenever that value is in the
\* range; for another model it is max(requested, 50), without upper bound.
C5_MaxTokens ==
    \A i \in 1..Len(sent) :
        LET body == request[1].body
            asked == Requested(body)
            forwarded == sent[i].json.max_tokens
        IN IF is_thinking_model(body.model[1])
           THEN /\ forwarded >= 50 /\ forwarded <= 5000
                /\ (asked >= 50 /\ asked <= 5000) => forwarded = asked
           ELSE forwarded = (IF asked > 50 THEN asked ELSE 50)

\* a thinking-model request asking for 999999 tokens went upstream with 5000
C5_Witness ==
    /\ sent # <<>>
    /\ is_thinking_model(request[1].body.model[1])
    /\ request[1].body.max_tokens = <<999999>>
    /\ sent[1].json.max_tokens = 5000

ErrorEvents == {i \in 1..Len(events) : events[i].kind = "error"}

\* C6: whenever the upstream answers with status 429, the error reported to
\* the caller has type rate_limit_exceeded, in non-streaming and in streaming
\* mode.  (Stated for the 429 answers that open a stream or carry a JSON
\* object, so that no malformed body is involved.)
C6_RateLimitKind ==
    (upstream # <<>> /\ upstream[1].kind = "response" /\ upstream[1].status_code = 429
                    /\ upstream[1].json \in {"none", "dict"}) =>
        /\ response[1].body.kind # "stream" =>
               (response[1].body.kind = "error"
                   /\ response[1].body.type = "rate_limit_exceeded")
        /\ (response[1].body.kind = "stream" /\ gen.state = "finished"
                                             /\ consumer = "reading") =>
               (events # <<>> /\ Last(events).kind = "error"
                   /\ Last(events).type = "rate_limit_exceeded")

\* C7: in non-streaming mode an error payload never comes with a 2xx status,
\* and a body carrying choices[0].message is returned only when the upstream
\* answered 2xx with a non-empty choices list.
C7_NoFakeSuccess ==
    response # <<>> =>
        LET reply == response[1]
        IN /\ reply.body.kind = "error" =>
                  ~(reply.status_code >= 200 /\ reply.status_code <= 299)
           /\ reply.body.kind = "completion" =>
                  /\ upstream # <<>> /\ upstream[1].kind = "response"
                  /\ upstream[1].status_code >= 200 /\ upstream[1].status_code <= 299
                  /\ has_choices(upstream[1])

\* C8: the sentinel frame is the last frame of the stream: nothing is emitted
\* for an upstream line that arrives after 'data: [DONE]'.
C8_SentinelLast ==
    \A i \in 1..Len(events) : events[i].kind = "done" => i = Len(events)

MalformedKinds == {"badjson", "badshape"}

\* the lines that yield a frame
FrameLines(lines) == {i \in 1..Len(lines) : lines[i].kind \in {"chunk", "nochoices", "done"}}

RECURSIVE ChunkTexts(_)
ChunkTexts(lines) ==
    IF lines = <<>> THEN <<>>
    ELSE (IF Head(lines).kind = "chunk" THEN Head(lines).text ELSE <<>>)
             \o ChunkTexts(Tail(lines))

\* C9: a malformed upstream chunk is skipped: it emits no event, leaves the
\* accumulated text unchanged, produces no error event, and the stream goes
\* on, so that the well-formed lines after it still produce their events.
C9_MalformedSkipped ==
    (consumer = "reading"
        /\ \E i \in 1..Len(received) : received[i].kind \in MalformedKinds) =>
        /\ gen.state # "crashed"
        /\ Cardinality({i \in 1..Len(events) : events[i].kind # "error"})
               = Cardinality(FrameLines(received))
        /\ gen.accumulated_text = ChunkTexts(received)
        /\ ErrorEvents # {} => Last(upstream).kind = "exception"

\* the upstream connection failed: on connect, with a non-2xx status, or
\* while the body was read
UpstreamFailed ==
    \E i \in 1..Len(upstream) :
        \/ upstream[i].kind = "exception"
        \/ ~(upstream[i].status_code >= 200 /\ upstream[i].status_code <= 299)

\* C10: in streaming mode, when the upstream connection fails (on connect, on
\* a non-2xx status, or in the middle of the stream) exactly one error event
\* is emitted, it is the last event, and the sequence ends; without a failure
\* no error event is emitted.
C10_OneErrorEvent ==
    (gen.state \in {"open", "finished", "crashed"} /\ consumer = "reading") =>
        IF UpstreamFailed
        THEN /\ Cardinality(ErrorEvents) = 1
             /\ Last(events).kind = "error"
             /\ gen.state = "finished"
        ELSE ErrorEvents = {}

\* the request fails the local validation of operation()
FailsValidation(req) ==
    \/ clean_api_key(req.auth) = <<>>
    \/ MessagesMissing(req.body)
    \/ ModelMissing(req.body)

\* C11: the adapter never retries: for every inbound request the number of
\* calls issued to the remote endpoint is 0 when local validation fails and
\* exactly 1 otherwise, whatever the upstream outcome (success, HTTP error,
\* transport failure, malformed body), in non-streaming and in streaming
\* mode (where the call is issued when the generator starts).
C11_NoRetry ==
    request # <<>> =>
        LET req == request[1]
        IN /\ Len(sent) <= 1
           /\ FailsValidation(req) => Len(sent) = 0
           /\ (~FailsValidation(req) /\ ~req.body.stream) => Len(sent) = 1
           /\ (~FailsValidation(req) /\ req.body.stream /\ gen.state # "created") =>
                  Len(sent) = 1

\* a streaming request whose connection failed when it was opened ended
\* with one call made
C11_Witness ==
    /\ request # <<>> /\ request[1].body.stream
    /\ gen.state = "finished"
    /\ upstream = <<TransportFailure>>
    /\ Len(sent) = 1

\* the delimiters of the preset a route stands for
RoutePreset(route) ==
    CASE route \in {"/", "/socratic", "/chatml", "/raw"} -> premade_instruct.chatml
      [] route = "/llama-3" -> premade_instruct.llama3
      [] route = "/mistral" -> premade_instruct.mistral
      [] route = "/alpaca" -> premade_instruct.alpaca
      [] route = "/vicuna" -> premade_instruct.vicuna
      [] route = "/command-r" -> premade_instruct.commandr
      [] route = "/gemma2" -> premade_instruct.gemma2

\* one message between the start and end delimiter of its role; a tool
\* message has no delimiters
Wrapped(message, p) ==
    CASE message.role = "system" -> Seg(p.system_start) \o message.content \o Seg(p.system_end)
      [] message.role = "user" -> Seg(p.user_start) \o message.content \o Seg(p.user_end)
      [] message.role = "assistant" ->
             Seg(p.assistant_start) \o message.content \o Seg(p.assistant_end)
      [] message.role = "tool" -> message.content

RECURSIVE WrappedInOrder(_, _)
WrappedInOrder(messages, p) ==
    IF messages = <<>> THEN <<>>
    ELSE WrappedInOrder(SubSeq(messages, 1, Len(messages) - 1), p)
             \o Wrapped(messages[Len(messages)], p)

InjectingRoutes ==
    {"/", "/socratic", "/chatml", "/llama-3", "/mistral", "/alpaca", "/vicuna",
     "/command-r", "/gemma2"}

\* C12: for a valid request on an instruction-injecting route ('/',
\* '/socratic', '/chatml' with chatml; '/llama-3', '/mistral', '/alpaca',
\* '/vicuna', '/command-r', '/gemma2' with the preset of that name) whose
\* messages hold no system message, the prompt sent upstream is the preset's
\* system-start delimiter, the fixed instruction and the system-end
\* delimiter, then each of the caller's messages wrapped in the delimiters of
\* its role, in the caller's order, then the assistant-start delimiter with
\* nothing after it.
C12_InjectedPrompt ==
    \A i \in 1..Len(sent) :
        LET req == request[1]
            p == RoutePreset(req.route)
        IN (req.route \in InjectingRoutes /\ ~has_system(req.body.messages[1])) =>
               sent[i].json.prompt =
                   Seg(p.system_start) \o SOCRATIC_SYSTEM_PROMPT \o Seg(p.system_end)
                       \o WrappedInOrder(req.body.messages[1], p)
                       \o Seg(p.assistant_start)

\* a three-message conversation without system message went upstream on
\* the mistral route, whose system delimiters are empty
C12_Witness ==
    /\ sent # <<>>
    /\ request[1].route = "/mistral"
    /\ request[1].body.messages = <<<<UserMessage, AssistantMessage, FollowUpMessage>>>>
    /\ sent[1].json.prompt[1] = "SOCRATIC_SYSTEM_PROMPT"
    /\ Last(sent[1].json.prompt) = " [/INST]"

\* the instruction is a segment of the prompt / of one of the messages
HoldsInstruction(segments) ==
    \E k \in 1..Len(segments) : segments[k] = SOCRATIC_SYSTEM_PROMPT[1]

\* C13: with injection disabled the messages are returned unchanged, so on
\* '/raw' the prompt sent upstream is the caller's messages, each wrapped in
\* the chatml delimiters of its role, followed by the chatml assistant-start
\* delimiter, and it contains the fixed instruction only if the caller's
\* messages contain it.
C13_RawPrompt ==
    (request # <<>> /\ request[1].route = "/raw") =>
        LET req == request[1]
            p == premade_instruct.chatml
        IN /\ req.json_data = req.body
           /\ \A i \in 1..Len(sent) :
                  LET messages == req.body.messages[1]
                  IN /\ inject_system_prompt(messages, FALSE) = messages
                     /\ sent[i].json.prompt =
                            WrappedInOrder(messages, p) \o Seg(p.assistant_start)
                     /\ HoldsInstruction(sent[i].json.prompt) =>
                            \E k \in 1..Len(messages) :
                                HoldsInstruction(messages[k].content)

\* a '/raw' request with a system message of the caller went upstream
\* without the instruction
C13_Witness ==
    /\ sent # <<>>
    /\ request[1].route = "/raw"
    /\ request[1].body.messages = <<<<SystemMessage, UserMessage>>>>
    /\ ~HoldsInstruction(sent[1].json.prompt)
    /\ sent[1].json.prompt[1] = "<|im_start|>system\n"

\* C14: for each of the seven built-in presets and every message list with
\* roles among system, user, assistant and tool, flatten returns exactly the
\* concatenation, in order, of start delimiter + content + end delimiter of
\* each message's role (nothing around a tool message), followed by the
\* preset's assistant-start delimiter once and nothing after it.
C14_Flatten ==
    (result # <<>> /\ call.preset \in PresetNames) =>
        LET p == premade_instruct[preset_key(call.preset)]
        IN /\ result[1].raised = ""
           /\ result[1].prompt =
                  WrappedInOrder(call.messages_list, p) \o Seg(p.assistant_start)

\* a tool message followed by an assistant message was flattened for mistral
C14_Witness ==
    /\ result # <<>>
    /\ call.preset = "mistral"
    /\ Len(call.messages_list) = 2
    /\ call.messages_list[1] = [role |-> "tool", content |-> <<"m">>]
    /\ call.messages_list[2] = [role |-> "assistant", content |-> <<"n">>]
    /\ result[1].prompt = <<"m", " [/INST]", "n", "</s> ", " [/INST]">>

\* C15: flatten fails with a lookup failure, producing no prompt, for every
\* preset name that is not one of the seven built-in names, and the failure
\* reaches the caller as a structured {error: {message, type}} payload; it
\* never fails for one of the seven names.
C15_UnknownPreset ==
    result # <<>> =>
        IF call.preset \in {"alpaca", "vicuna", "llama-3", "chatml", "command-r",
                            "mistral", "gemma2"}
        THEN result[1].raised = "" /\ result[1].reply = <<>>
        ELSE /\ result[1].raised # ""
             /\ result[1].prompt = <<>>
             /\ result[1].reply # <<>>
             /\ result[1].reply[1].body.kind = "error"
             /\ result[1].reply[1].body.message # ""
             /\ result[1].reply[1].body.type # ""

\* position (from 1) of the last terminal punctuation among the first n
\* characters of t, 0 when there is none
RECURSIVE LastPunctuation(_, _)
LastPunctuation(t, n) ==
    IF n = 0 THEN 0
    ELSE IF t[n] \in punctuation THEN n
    ELSE LastPunctuation(t, n - 1)

RECURSIVE RightTrimmed(_)
RightTrimmed(t) ==
    IF t = <<>> THEN <<>>
    ELSE IF t[Len(t)] \in Whitespace THEN RightTrimmed(SubSeq(t, 1, Len(t) - 1))
    ELSE t

TrimReference(t) ==
    LET i == LastPunctuation(t, Len(t))
    IN IF i = 0 THEN RightTrimmed(t)
       ELSE IF i > 1 /\ t[i - 1] \in {" ", "\n"}
       THEN RightTrimmed(SubSeq(t, 1, i - 1))
       ELSE RightTrimmed(SubSeq(t, 1, i))

\* C16: trimToSentenceBoundary(text, includeNewline = false) equals the
\* reference: with i the index of the last terminal punctuation, the text is
\* cut after index i - 1 when the character before i is a space or newline
\* and after index i otherwise, and right-trimmed; without punctuation the
\* whole text is right-trimmed.  A text ending on punctuation preceded by a
\* non-space character comes back unchanged, and a text without punctuation
\* that is not blank does not come back empty.
C16_TrimReference ==
    (result # <<>> /\ ~call.include_newline) =>
        LET t == call.input_str
        IN /\ result[1] = TrimReference(t)
           /\ (Len(t) >= 2 /\ t[Len(t)] \in punctuation
                  /\ t[Len(t) - 1] \notin Whitespace) => result[1] = t
           /\ ((\A k \in 1..Len(t) : t[k] \notin punctuation)
                  /\ (\E k \in 1..Len(t) : t[k] \notin Whitespace)) => result[1] # <<>>

\* 'a .a' was trimmed to 'a': cut before the space that precedes the last
\* punctuation
C16_Witness ==
    /\ result # <<>> /\ ~call.include_newline
    /\ call.input_str = <<"a", " ", ".", "a">>
    /\ result[1] = <<"a">>

\* the header starts with 'bearer ' in any letter case
HasBearerPrefix(h) == Len(h) >= 7 /\ lower(SubSeq(h, 1, 7)) = BEARER

\* number of Bearer prefixes the header starts with
RECURSIVE PrefixCount(_)
PrefixCount(h) ==
    IF HasBearerPrefix(h) THEN 1 + PrefixCount(SubSeq(h, 8, Len(h))) ELSE 0

\* what follows the Bearer prefixes the header starts with
RECURSIVE AfterPrefixes(_)
AfterPrefixes(h) ==
    IF HasBearerPrefix(h) THEN AfterPrefixes(SubSeq(h, 8, Len(h))) ELSE h

\* C17: for an inbound Authorization header K, 'Bearer K' or 'Bearer Bearer
\* K' (prefix in any letter case, K not starting with 'bearer ' and not
\* blank) the header forwarded upstream is exactly 'Bearer ' followed by K
\* without its surrounding whitespace; a header that is absent, empty or
\* consists only of Bearer prefixes is rejected with 401 and nothing is
\* forwarded.
C17_BearerHeader ==
    result # <<>> =>
        LET h == call.auth_header
            K == AfterPrefixes(h)
        IN /\ (PrefixCount(h) <= 2 /\ strip(K) # <<>>) =>
                  /\ result[1].reply = <<>>
                  /\ result[1].forwarded = << <<"B", "e", "a", "r", "e", "r", " ">> \o strip(K) >>
           /\ (h = <<>> \/ (PrefixCount(h) >= 1 /\ K = <<>>)) =>
                  /\ result[1].forwarded = <<>>
                  /\ result[1].reply # <<>>
                  /\ IsError(result[1].reply[1], 401, "authentication_error")

\* the text of the first choice of the upstream answer ("" when it has none)
RawText(outcome) ==
    IF outcome.choices[1][1].text = <<>> THEN <<>> ELSE outcome.choices[1][1].text[1]

\* C18: in non-streaming mode, on upstream success (2xx with a non-empty
\* choices list) the message of the first choice has role assistant; for a
\* thinking model its content is the sentence-boundary-trimmed finalAnswer of
\* parseThinking(raw text) ("" when finalAnswer is empty) and
\* reasoning_content is present iff the parsed reasoning is not empty, and
\* then equals it; for another model its content is the
\* sentence-boundary-trimmed raw text and reasoning_content is never
\* present, even when the raw text holds think delimiters.
C18_SuccessMessage ==
    (response # <<>> /\ upstream # <<>> /\ ~request[1].body.stream
        /\ upstream[1].kind = "response"
        /\ upstream[1].status_code >= 200 /\ upstream[1].status_code <= 299
        /\ upstream[1].json = "dict"
        /\ upstream[1].choices # <<>> /\ upstream[1].choices[1] # <<>>) =>
        LET reply == response[1]
            raw == RawText(upstream[1])
            p == parse_thinking_content(raw)
        IN /\ reply.status_code = 200
           /\ reply.body.kind = "completion"
           /\ reply.body.role = "assistant"
           /\ IF is_thinking_model(request[1].body.model[1])
              THEN /\ reply.body.content =
                          (IF p.final_answer = <<>> THEN <<>>
                           ELSE TrimReference(p.final_answer))
                   /\ reply.body.reasoning_content =
                          (IF p.thinking_content = <<>> THEN <<>>
                           ELSE <<p.thinking_content>>)
              ELSE /\ reply.body.content = TrimReference(raw)
                   /\ reply.body.reasoning_content = <<>>

\* a model that is not a thinking model answered with a closed think block:
\* the delimiters stay in the content and no reasoning_content is added
C18_Witness ==
    /\ response # <<>> /\ upstream # <<>>
    /\ ~is_thinking_model(request[1].body.model[1])
    /\ upstream[1].status_code = 200
    /\ response[1].body.kind = "completion"
    /\ response[1].body.content =
           THINK_OPEN \o <<"a">> \o THINK_CLOSE \o <<"b", ".">>
    /\ response[1].body.reasoning_content = <<>>

\* C19: a streaming request is cancellable: once the caller has closed the
\* consuming side, nothing more is read from the upstream connection, no
\* further line is processed, no further event is emitted and no call is
\* made for that request.
C19_Cancellable ==
    [][consumer = "closed" =>
           /\ buffered' = buffered
           /\ received' = received
           /\ events' = events
           /\ sent' = sent]_vars

\* the frames of a request that runs alone and receives these lines
RECURSIVE AloneEvents(_, _)
AloneEvents(g, lines) ==
    IF lines = <<>> THEN <<>>
    ELSE LET turn == stream_turn(g, Head(lines))
         IN turn.frames \o AloneEvents(turn.gen, Tail(lines))

\* C20: concurrent requests are independent: in every interleaving of two
\* streaming requests the events emitted for each request are those it
\* would emit alone on the lines it received, its accumulated text is made
\* of its own fragments only, and the process-wide configuration is never
\* modified.
C20_Independent ==
    /\ settings = StartupSettings
    /\ \A h \in Handlers :
           streams[h].gen.state # "none" =>
               /\ streams[h].events =
                      AloneEvents([state |-> "open",
                                   is_thinking_model |-> streams[h].gen.is_thinking_model,
                                   accumulated_text |-> <<>>],
                                  streams[h].received)
               /\ streams[h].gen.accumulated_text = ChunkTexts(streams[h].received)

\* two thinking-model requests in flight: B has an open reasoning block, A
\* received plain text and its events carry no reasoning
C20_Witness ==
    /\ streams["A"].gen.is_thinking_model /\ streams["B"].gen.is_thinking_model
    /\ streams["B"].received = <<Line("chunk", THINK_OPEN), Line("chunk", <<"a">>)>>
    /\ streams["A"].received = <<Line("chunk", <<"a">>)>>
    /\ streams["A"].events = <<Event("data", <<"a">>, <<>>, "")>>
    /\ streams["B"].events[2].reasoning_content = << <<"a">> >>

\* the end-of-turn marker of the preset of a route (the end delimiter of
\* its turns without trailing whitespace); alpaca and vicuna have none
EndOfTurnMarkers(route) ==
    CASE route \in {"/", "/socratic", "/chatml", "/raw"} -> {"<|im_end|>"}
      [] route = "/llama-3" -> {"<|eot_id|>"}
      [] route = "/mistral" -> {"</s>"}
      [] route = "/command-r" -> {"<|END_OF_TURN_TOKEN|>"}
      [] route = "/gemma2" -> {"<end_of_turn>"}
      [] OTHER -> {}

Elements(q) == {q[k] : k \in 1..Len(q)}

\* C21: for every route preset, the stop-sequence list sent upstream holds
\* the fixed user-turn marker and the end-of-turn marker of the preset used
\* to flatten that request (the llama-3, gemma2, command-r and mistral
\* markers on their routes, not only the chatml one).
C21_PresetStop ==
    \A i \in 1..Len(sent) :
        /\ "\n{{user}}:" \in Elements(sent[i].json.stop)
        /\ EndOfTurnMarkers(request[1].route) \subseteq Elements(sent[i].json.stop)

\* positions of an open delimiter that a close delimiter follows
OpensWithClose(t) ==
    {i \in 0..Len(t) : OccursAt(t, THINK_OPEN, i)
        /\ \E j \in (i + 7)..Len(t) : OccursAt(t, THINK_CLOSE, j)}

\* the first open delimiter that is closed and the first close after it
PairOpen(t) == Min(OpensWithClose(t))
PairClose(t) == Min({j \in (PairOpen(t) + 7)..Len(t) : OccursAt(t, THINK_CLOSE, j)})

\* C22 as stated: for a text that does not start with an open delimiter
\* but holds an open delimiter followed later by a close delimiter,
\* reasoning is the content between the first such pair and finalAnswer is
\* everything after that close delimiter.
C22_EmbeddedPair ==
    (parsed # <<>> /\ ~StartsWithOpen(text) /\ OpensWithClose(text) # {}) =>
        parsed[1] = [thinking_content |-> Slice(text, PairOpen(text) + 7, PairClose(text)),
                     final_answer |-> SliceFrom(text, PairClose(text) + 8)]

\* C22, amended: for such a text reasoning is the content between the first
\* open/close pair, trimmed of surrounding whitespace, and finalAnswer is
\* everything after that close delimiter, trimmed; the text that precedes
\* the open delimiter appears in neither output.
C22_EmbeddedPairTrimmed ==
    (parsed # <<>> /\ ~StartsWithOpen(text) /\ OpensWithClose(text) # {}) =>
        parsed[1] = [thinking_content |->
                         strip(Slice(text, PairOpen(text) + 7, PairClose(text))),
                     final_answer |-> strip(SliceFrom(text, PairClose(text) + 8))]

\* 'a<think>a</think>' was parsed: the leading 'a' is in neither output
C22_Witness ==
    /\ parsed # <<>>
    /\ text = <<"a">> \o THINK_OPEN \o <<"a">> \o THINK_CLOSE
    /\ parsed[1] = [thinking_content |-> <<"a">>, final_answer |-> <<>>]

SystemPositions(messages) == {i \in 1..Len(messages) : messages[i].role = "system"}

\* C23: injectInstruction with enabled = true: if some message has role
\* system, the result has the same number of messages in the same order,
\* the content of the first system message becomes the fixed instruction +
\* separator + its previous content, and every other message (later system
\* messages included) is unchanged; if no message has role system, the result
\* is one new message {role: system, content: fixed instruction} followed by
\* all input messages in their order.
C23_InjectEnabled ==
    (result # <<>> /\ call.use_socratic) =>
        LET messages == call.messages
            out == result[1]
        IN IF SystemPositions(messages) # {}
           THEN LET k == Min(SystemPositions(messages))
                IN /\ Len(out) = Len(messages)
                   /\ out[k].role = "system"
                   /\ out[k].content =
                          <<"SOCRATIC_SYSTEM_PROMPT", "\n\n---\n\n">> \o messages[k].content
                   /\ \A i \in 1..Len(messages) : i # k => out[i] = messages[i]
           ELSE /\ Len(out) = Len(messages) + 1
                /\ out[1] = [role |-> "system", content |-> <<"SOCRATIC_SYSTEM_PROMPT">>]
                /\ \A i \in 1..Len(messages) : out[i + 1] = messages[i]

\* two system messages went in: the first was merged, the second is as it was
C23_Witness ==
    /\ result # <<>> /\ call.use_socratic
    /\ call.messages = <<[role |-> "system", content |-> <<"m">>],
                         [role |-> "system", content |-> <<"n">>]>>
    /\ result[1][1].content = <<"SOCRATIC_SYSTEM_PROMPT", "\n\n---\n\n", "m">>
    /\ result[1][2].content = <<"n">>

\* C24: autoTrim with trimming enabled.  For a thinking output whose
\* parse_thinking_content final answer is not empty the result is
\* trim_to_end_sentence of that final answer alone; when the final answer is
\* empty the result is the raw text; for a non-thinking output the result is
\* trim_to_end_sentence of the text.
C24_AutoTrim ==
    (result # <<>> /\ settings.auto_trim) =>
        IF call.is_thinking
        THEN LET final_answer == parse_thinking_content(call.text).final_answer
             IN IF final_answer # <<>>
                THEN result[1] = trim_to_end_sentence(final_answer, FALSE)
                ELSE result[1] = call.text
        ELSE result[1] = trim_to_end_sentence(call.text, FALSE)

\* a thinking output "<think></think>.a": only the answer is kept, cut at its full stop
C24_Witness ==
    /\ result # <<>> /\ settings.auto_trim /\ call.is_thinking
    /\ call.text = THINK_OPEN \o THINK_CLOSE \o <<".", "a">>
    /\ result[1] = <<".">>

\* C25: with auto_trim disabled autoTrim returns its text unchanged, for every
\* text and both values of is_thinking.
C25_Passthrough ==
    (result # <<>> /\ ~settings.auto_trim) => result[1] = call.text

IsChunk(line) == line.kind = "chunk"
IsData(event) == event.kind = "data"

\* the well-formed chunks among the lines, and the events emitted for chunks
ChunkLines(lines) == SelectSeq(lines, IsChunk)
DataEvents == SelectSeq(events, IsData)

\* C26: in streaming mode, after any sequence of upstream lines, the
\* accumulated text is the concatenation, in arrival order, of the fragments
\* of the well-formed chunks received so far; the event of a chunk carries as
\* content the fragment of that chunk alone; for a thinking model it carries
\* as reasoning_content the reasoning parse_thinking_content finds in the text
\* accumulated up to that chunk, whenever that reasoning is not empty; for a
\* non-thinking model no event carries reasoning_content.
C26_Accumulation ==
    gen.state \in {"open", "finished", "crashed"} =>
        LET chunks == ChunkLines(received)
        IN /\ gen.accumulated_text = ChunkTexts(received)
           /\ Len(DataEvents) = Len(chunks)
           /\ \A k \in 1..Len(chunks) :
                 LET so_far == ChunkTexts(SubSeq(chunks, 1, k))
                     reasoning == parse_thinking_content(so_far).thinking_content
                 IN /\ DataEvents[k].content = chunks[k].text
                    /\ DataEvents[k].reasoning_content =
                          IF gen.is_thinking_model /\ reasoning # <<>>
                          THEN <<reasoning>> ELSE <<>>

\* the delimiters and the reasoning arrived in three chunks of a thinking
\* model: the third event carries the fragment "</think>" and the reasoning "a"
C26_Witness ==
    /\ gen.is_thinking_model
    /\ received = <<Line("chunk", THINK_OPEN), Line("chunk", <<"a">>),
                    Line("chunk", THINK_CLOSE)>>
    /\ Len(events) = 3
    /\ events[1].reasoning_content = <<>>
    /\ events[3].content = THINK_CLOSE
    /\ events[3].reasoning_content = <<<<"a">>>>

IsFrameLine(line) == line.kind \in {"chunk", "nochoices", "done"}

\* the kind of the frame a line yields
FrameKind(line) ==
    IF line.kind = "chunk" THEN "data"
    ELSE IF line.kind = "nochoices" THEN "passthrough" ELSE "done"

\* C27: in streaming mode the upstream response is consumed line by line over
\* the open connection: the event for an upstream line is emitted without
\* waiting for later upstream lines (whenever a line has arrived from the
\* upstream and has not been handled yet, handling it is the generator's next
\* step, whether or not the upstream has ended its body), and the events are
\* in the order of the upstream lines they come from.
C27_Incremental ==
    /\ (gen.state \in {"posting", "open"} /\ consumer = "reading"
            /\ Len(received) < Len(buffered)
            /\ IsFrameLine(buffered[Len(received) + 1])) =>
           ENABLED (\E line \in Lines : stream_line(line))
    /\ LET frame_lines == SelectSeq(received, IsFrameLine)
       IN \A k \in 1..Len(events) :
             events[k].kind # "error" =>
                 /\ k <= Len(frame_lines)
                 /\ events[k].kind = FrameKind(frame_lines[k])

\* C28: handling a request does not modify the request of the caller: after
\* operation() has returned, whatever the outcome and whether or not the route
\* injects, the messages list of the request body has the length, the order
\* and, message by message, the role and the content it arrived with.
C28_RequestUntouched ==
    (request # <<>> /\ request[1].body.messages # <<>>) =>
        LET before == request[1].body.messages[1]
            after == request[1].json_data.messages[1]
        IN /\ Len(after) = Len(before)
           /\ \A i \in 1..Len(before) :
                 /\ after[i].role = before[i].role
                 /\ after[i].content = before[i].content

\* the text accumulated when the k-th chunk of the stream has been added
AccumulatedAt(k) == ChunkTexts(SubSeq(ChunkLines(received), 1, k))

\* reasoning_content as an event carries it: absent when the reasoning is empty
Attached(reasoning) == IF reasoning = <<>> THEN <<>> ELSE <<reasoning>>

\* C29: in a stream of a thinking model whose accumulated text starts with an
\* open delimiter, as long as no close delimiter has been accumulated the
\* reasoning_content of each event is the accumulated text after the open
\* delimiter; from the first event that has a close delimiter in the
\* accumulated text, every later event carries the same reasoning_content.
C29_StableReasoning ==
    (gen.state \in {"open", "finished", "crashed"} /\ gen.is_thinking_model
        /\ Len(DataEvents) = Len(ChunkLines(received))) =>
        \A k \in 1..Len(DataEvents) :
            StartsWithOpen(AccumulatedAt(k)) =>
                IF ~contains(AccumulatedAt(k), THINK_CLOSE)
                THEN DataEvents[k].reasoning_content =
                         Attached(SliceFrom(AccumulatedAt(k), LeadLen(AccumulatedAt(k))))
                ELSE \A j \in k..Len(DataEvents) :
                         DataEvents[j].reasoning_content = DataEvents[k].reasoning_content

\* the text holds an open delimiter with no close delimiter after it
HasUnclosedOpen(t) ==
    \E i \in 0..Len(t) :
        /\ OccursAt(t, THINK_OPEN, i)
        /\ \A j \in (i + 1)..Len(t) : ~OccursAt(t, THINK_CLOSE, j)

\* C30: parse_thinking_content returns a non-empty reasoning together with an
\* empty final answer only for a text that holds an open delimiter which is
\* never closed; a text whose think block is closed is never reported in that
\* shape.
C30_InProgressShape ==
    (parsed # <<>> /\ parsed[1].thinking_content # <<>> /\ parsed[1].final_answer = <<>>) =>
        HasUnclosedOpen(text)

=============================================================================
